---------------------------- MODULE Spec2Model ----------------------------
(***************************************************************************)
(* A model of pyocr's builders (src/src/pyocr/builders.py): the Box and    *)
(* LineBox regions with their ordering and hashing, the two streaming      *)
(* hOCR parsers (_WordHTMLParser, _LineHTMLParser), and the read_file /    *)
(* write_file operations of WordBoxBuilder and LineBoxBuilder.             *)
(*                                                                         *)
(* Text is a sequence of one-character strings, so that formatting,        *)
(* splitting, stripping and integer parsing are computed, not assumed.     *)
(***************************************************************************)
EXTENDS Integers, Sequences, FiniteSets, TLC

VARIABLES
    ra, rb,      \* the two regions last compared (rb may be None)
    cres,        \* results of the six comparison operators on (ra, rb)
    hres,        \* results of hash(ra), hash(rb)
    pcc,         \* position of the comparison scenario
    origin,      \* where the document read comes from: "write" or "raw"
    mode,        \* the builder reading: "word" (WordBoxBuilder) or "line"
    input,       \* the boxes or lines handed to write_file
    src,         \* the span structure of a document that was not written here
    doc,         \* html_str, as the events feed() dispatches
    pi,          \* index of the parser being fed in read_file (1, 2)
    pos,         \* index in doc of the next event to dispatch
    wp,          \* the _WordHTMLParser of read_file
    lp,          \* the _LineHTMLParser of read_file
    result,      \* what read_file returned
    pc,          \* "idle", "ready", "feeding", "done", "raised"
    built_text,  \* TextBuilder.built_text
    lb_lines,    \* LineBoxBuilder.lines
    calls,       \* the start_line and add_word calls made on the builder
    output,      \* what get_output last returned, if no call came since
    pcb          \* the builder in use: "new", "text", "line", "raised"

cvars == <<ra, rb, cres, hres, pcc>>
rvars == <<origin, mode, input, src, doc, pi, pos, wp, lp, result, pc>>
bvars == <<built_text, lb_lines, calls, output, pcb>>
vars == <<cvars, rvars, bvars>>

-----------------------------------------------------------------------------
(* Bounds of the model.                                                    *)

\* Coordinates of compared regions are CoordStep * c - 1 for c in 0..MaxCoord:
\* negative, and beyond one byte.
MaxCoord == 1
CoordStep == 255

\* The most boxes, and the most lines, handed to write_file.
MaxBoxes == 2
MaxLines == 2

\* The most top-level elements of a document that was not written here.
MaxTop == 2

\* The most start_line and add_word calls made on a builder.
MaxCalls == 4

-----------------------------------------------------------------------------
(* Generic helpers on sequences.                                           *)

Front(s) == SubSeq(s, 1, Len(s) - 1)

Last(s) == s[Len(s)]

RECURSIVE Concat(_)
Concat(ss) == IF ss = <<>> THEN <<>> ELSE Head(ss) \o Concat(Tail(ss))

Min(S) == CHOOSE x \in S : \A y \in S : x <= y
Max(S) == CHOOSE x \in S : \A y \in S : x >= y

\* All sequences over S of length at most n.
SeqsUpTo(S, n) == UNION {[1..k -> S] : k \in 0..n}

-----------------------------------------------------------------------------
(* Box and LineBox values.                                                 *)

\* Python's None, as the operand of a comparison.
None == [kind |-> "None"]

\* Box.__init__
Box(content, position, confidence) ==
    [kind |-> "Box", content |-> content, position |-> position,
     confidence |-> confidence]

\* LineBox.__init__
LineBox(word_boxes, position) ==
    [kind |-> "LineBox", word_boxes |-> word_boxes, position |-> position]

\* str.strip(): whitespace removed at both ends.
Whitespace == {" ", "\n", "\t"}

RECURSIVE LStrip(_)
LStrip(s) ==
    IF s # <<>> /\ Head(s) \in Whitespace THEN LStrip(Tail(s)) ELSE s

RECURSIVE RStrip(_)
RStrip(s) ==
    IF s # <<>> /\ Last(s) \in Whitespace THEN RStrip(Front(s)) ELSE s

Strip(s) == RStrip(LStrip(s))

\* LineBox.__get_content: each word's content followed by a space, stripped.
RECURSIVE LineBox_join(_)
LineBox_join(word_boxes) ==
    IF word_boxes = <<>> THEN <<>>
    ELSE Head(word_boxes).content \o <<" ">> \o LineBox_join(Tail(word_boxes))

\* __get_content without its strip().
LineBox_get_content_unstripped(line) == LineBox_join(line.word_boxes)

LineBox_get_content(line) == Strip(LineBox_join(line.word_boxes))

\* The content attribute of a region: a field of Box, a property of LineBox.
ContentOf(r) ==
    IF r.kind = "Box" THEN r.content ELSE LineBox_get_content(r)

-----------------------------------------------------------------------------
(* Ordering: __box_cmp and the six rich comparisons.                       *)

\* The pairs __box_cmp walks, in the order of the code.
CmpPairs_swapped(self, other) ==
    << <<self.position[1][1], other.position[1][1]>>,
       <<self.position[2][1], other.position[2][1]>>,
       <<self.position[1][2], other.position[1][2]>>,
       <<self.position[2][2], other.position[2][2]>> >>

CmpPairs(self, other) ==
    << <<self.position[1][2], other.position[1][2]>>,
       <<self.position[2][2], other.position[2][2]>>,
       <<self.position[1][1], other.position[1][1]>>,
       <<self.position[2][1], other.position[2][1]>> >>

\* The for loop of __box_cmp: the first differing pair decides.
RECURSIVE CmpLoop(_)
CmpLoop(pairs) ==
    IF pairs = <<>> THEN 0
    ELSE IF Head(pairs)[1] < Head(pairs)[2] THEN -1
    ELSE IF Head(pairs)[1] > Head(pairs)[2] THEN 1
    ELSE CmpLoop(Tail(pairs))

Box_box_cmp_NoneGreater(self, other) ==
    IF other.kind = "None" THEN 1 ELSE CmpLoop(CmpPairs(self, other))

Box_box_cmp(self, other) ==
    IF other.kind = "None" THEN -1 ELSE CmpLoop(CmpPairs(self, other))

LineBox_box_cmp(self, other) ==
    IF other.kind = "None" THEN -1 ELSE CmpLoop(CmpPairs(self, other))

\* The class of self selects the method.
box_cmp(self, other) ==
    IF self.kind = "Box" THEN Box_box_cmp(self, other)
    ELSE LineBox_box_cmp(self, other)

Region_lt(self, other) == box_cmp(self, other) < 0
Region_gt_orEqual(self, other) == box_cmp(self, other) >= 0

Region_gt(self, other) == box_cmp(self, other) > 0
Region_eq(self, other) == box_cmp(self, other) = 0
Region_le(self, other) == box_cmp(self, other) <= 0
Region_ge(self, other) == box_cmp(self, other) >= 0
Region_ne(self, other) == box_cmp(self, other) # 0

-----------------------------------------------------------------------------
(* Hashing.                                                                *)

\* Bitwise exclusive or of two naturals.
RECURSIVE XorNat(_, _)
XorNat(a, b) ==
    IF a = 0 THEN b
    ELSE IF b = 0 THEN a
    ELSE (((a % 2) + (b % 2)) % 2) + 2 * XorNat(a \div 2, b \div 2)

\* A Python int that fits 64 bits is held as its HashBytes two's-complement
\* bytes, least significant first: the model checker's own integers are
\* narrower than the 32-bit position hash.
HashBytes == 8

\* Python's ^ on two such integers.
Xor(a, b) == [i \in 1..HashBytes |-> XorNat(a[i], b[i])]

\* hash() of a str: 0 for the empty string, otherwise a value that depends
\* on the text and on the interpreter's per-process salt; it may be negative.
RECURSIVE StrSum(_)
StrSum(s) ==
    IF s = <<>> THEN 0
    ELSE (IF Head(s) \in Whitespace THEN 3 ELSE 7) + 5 * StrSum(Tail(s))

StrHash(s, salt) ==
    [i \in 1..HashBytes |->
        IF s = <<>> THEN 0 ELSE (salt * (StrSum(s) + i)) % 256]

\* (x & 0xFF) << shift, for shift a multiple of 8: one byte set.
Byte(x, shift) ==
    [i \in 1..HashBytes |-> IF i = (shift \div 8) + 1 THEN x % 256 ELSE 0]

\* position_hash += ...: the summands occupy different bytes, so no carry.
Add(a, b) == [i \in 1..HashBytes |-> a[i] + b[i]]

Zero == [i \in 1..HashBytes |-> 0]

\* A position hash that packs y before x.
PositionHash_yx(position) ==
    Add(Add(Add(Add(Zero, Byte(position[1][2], 0)),
                Byte(position[1][1], 8)),
            Byte(position[2][2], 16)),
        Byte(position[2][1], 24))

PositionHash(position) ==
    Add(Add(Add(Add(Zero, Byte(position[1][1], 0)),
                Byte(position[1][2], 8)),
            Byte(position[2][1], 16)),
        Byte(position[2][2], 24))

\* A hash that lets the content through (one ^ instead of two).
Region_hash_content(self, salt) ==
    Xor(PositionHash(self.position), StrHash(ContentOf(self), salt))

\* Box.__hash__ / LineBox.__hash__
Region_hash(self, salt) ==
    Xor(Xor(PositionHash(self.position), StrHash(ContentOf(self), salt)),
        StrHash(ContentOf(self), salt))

-----------------------------------------------------------------------------
(* Text: str.split, str.startswith, "%d" formatting and int().             *)

Digits == <<"0", "1", "2", "3", "4", "5", "6", "7", "8", "9">>

IsDigit(c) == \E d \in 1..10 : Digits[d] = c

DigitVal(c) == (CHOOSE d \in 1..10 : Digits[d] = c) - 1

RECURSIVE NatToStr(_)
NatToStr(n) ==
    IF n < 10 THEN <<Digits[n + 1]>>
    ELSE NatToStr(n \div 10) \o <<Digits[(n % 10) + 1]>>

\* "%d" % n, without the sign: what a formatter that forgets it would write.
FormatInt_unsigned(n) == IF n < 0 THEN NatToStr(-n) ELSE NatToStr(n)

\* "%d" % n
FormatInt(n) == IF n < 0 THEN <<"-">> \o NatToStr(-n) ELSE NatToStr(n)

RECURSIVE DigitsToNat(_)
DigitsToNat(s) ==
    IF s = <<>> THEN 0 ELSE 10 * DigitsToNat(Front(s)) + DigitVal(Last(s))

AllDigits(s) == s # <<>> /\ \A i \in 1..Len(s) : IsDigit(s[i])

\* int(s): surrounding whitespace, an optional sign, decimal digits.
\* [ok |-> FALSE] stands for ValueError.
ParseInt(s) ==
    LET t == Strip(s)
        signed == t # <<>> /\ Head(t) \in {"-", "+"}
        body == IF signed THEN Tail(t) ELSE t
    IN  IF AllDigits(body)
        THEN [ok |-> TRUE,
              v |-> IF signed /\ Head(t) = "-" THEN -DigitsToNat(body)
                    ELSE DigitsToNat(body)]
        ELSE [ok |-> FALSE, v |-> 0]

\* s.startswith(prefix)
StartsWith(s, prefix) ==
    Len(s) >= Len(prefix) /\ SubSeq(s, 1, Len(prefix)) = prefix

\* The least index at which sep occurs in s, or 0.
Find(s, sep) ==
    LET hits == {i \in 1..(Len(s) - Len(sep) + 1) :
                    SubSeq(s, i, i + Len(sep) - 1) = sep}
    IN  IF hits = {} THEN 0 ELSE CHOOSE i \in hits : \A j \in hits : i <= j

\* s.split(sep), sep not empty
RECURSIVE Split(_, _)
Split(s, sep) ==
    LET i == Find(s, sep)
    IN  IF i = 0 THEN <<s>>
        ELSE <<SubSeq(s, 1, i - 1)>>
                \o Split(SubSeq(s, i + Len(sep), Len(s)), sep)

\* sep.join(parts)
RECURSIVE Join(_, _)
Join(parts, sep) ==
    IF parts = <<>> THEN <<>>
    ELSE IF Len(parts) = 1 THEN parts[1]
    ELSE parts[1] \o sep \o Join(Tail(parts), sep)

S_bbox == <<"b", "b", "o", "x">>
S_x_wconf == <<"x", "_", "w", "c", "o", "n", "f">>
S_x_bboxes == <<"x", "_", "b", "b", "o", "x", "e", "s">>
S_semi_space == <<";", " ">>
S_space == <<" ">>

\* An optional value: Python's None, or a value.
Absent == [none |-> TRUE, v |-> <<>>]
Some(x) == [none |-> FALSE, v |-> x]

-----------------------------------------------------------------------------
(* Markup. A document is held as the sequence of events HTMLParser.feed    *)
(* dispatches for it: start tags with their attributes, text, end tags.    *)

Start(tag, attrs) ==
    [type |-> "start", tag |-> tag, attrs |-> attrs, data |-> <<>>]
End(tag) == [type |-> "end", tag |-> tag, attrs |-> <<>>, data |-> <<>>]
Data(text) == [type |-> "data", tag |-> "", attrs |-> <<>>, data |-> text]

Attr(name, value) == [name |-> name, value |-> value]

\* xml.dom.minidom's escaping of character data, in toxml().
EscapeChar(c) ==
    IF c = "&" THEN <<"&", "a", "m", "p", ";">>
    ELSE IF c = "<" THEN <<"&", "l", "t", ";">>
    ELSE IF c = ">" THEN <<"&", "g", "t", ";">>
    ELSE IF c = "\"" THEN <<"&", "q", "u", "o", "t", ";">>
    ELSE <<c>>

RECURSIVE Escape(_)
Escape(s) == IF s = <<>> THEN <<>> ELSE EscapeChar(Head(s)) \o Escape(Tail(s))

\* The character references HTMLParser resolves (convert_charrefs), among
\* those the escaping can write; the names also count without their ";".
EntityNames ==
    {<<"a", "m", "p">>, <<"l", "t">>, <<"g", "t">>, <<"q", "u", "o", "t">>}

EntityChar(name) ==
    IF name = <<"a", "m", "p">> THEN "&"
    ELSE IF name = <<"l", "t">> THEN "<"
    ELSE IF name = <<"g", "t">> THEN ">"
    ELSE "\""

NameStop == {"\t", "\n", " ", "<", "&", "#", ";"}

\* html.unescape: one pass, left to right; a reference is "&", a name, and
\* an optional ";"; an unknown name is tried by its longest known prefix.
RECURSIVE Unescape(_)
Unescape(s) ==
    IF s = <<>> THEN <<>>
    ELSE IF Head(s) # "&" THEN <<Head(s)>> \o Unescape(Tail(s))
    ELSE
      LET rest == Tail(s)
          stops == {i \in 1..Len(rest) : rest[i] \in NameStop}
          n == IF stops = {} THEN Len(rest) ELSE Min(stops) - 1
          name == SubSeq(rest, 1, n)
          semi == n < Len(rest) /\ rest[n + 1] = ";"
          after == SubSeq(rest, n + (IF semi THEN 2 ELSE 1), Len(rest))
          known == {k \in 2..n : SubSeq(name, 1, k) \in EntityNames}
      IN  IF name \in EntityNames
          THEN <<EntityChar(name)>> \o Unescape(after)
          ELSE IF known # {}
          THEN <<EntityChar(SubSeq(name, 1, Max(known)))>>
                  \o Unescape(SubSeq(rest, Max(known) + 1, Len(rest)))
          ELSE <<"&">> \o Unescape(rest)

\* DOM nodes: xml.dom.minidom.Text and Element.
TextNode(data) == [text |-> TRUE, data |-> data]
Element(tag, attrs, kids) ==
    [text |-> FALSE, tag |-> tag, attrs |-> attrs, kids |-> kids]

\* The events of node.toxml() read back by HTMLParser: the text is escaped
\* on the way out and unescaped on the way in; empty text gives no event,
\* and <span/> gives a start and an end.
RECURSIVE XmlEvents(_)
XmlEvents(node) ==
    IF node.text
    THEN IF node.data = <<>> THEN <<>>
         ELSE <<Data(Unescape(Escape(node.data)))>>
    ELSE <<Start(node.tag, node.attrs)>>
           \o Concat([k \in 1..Len(node.kids) |-> XmlEvents(node.kids[k])])
           \o <<End(node.tag)>>

\* "bbox %d %d %d %d" with x and y exchanged.
BboxTitle_yx(position) ==
    S_bbox \o S_space \o FormatInt(position[1][2])
           \o S_space \o FormatInt(position[1][1])
           \o S_space \o FormatInt(position[2][2])
           \o S_space \o FormatInt(position[2][1])

\* "bbox %d %d %d %d"
BboxTitle(position) ==
    S_bbox \o S_space \o FormatInt(position[1][1])
           \o S_space \o FormatInt(position[1][2])
           \o S_space \o FormatInt(position[2][1])
           \o S_space \o FormatInt(position[2][2])

\* "bbox %d %d %d %d; x_wconf %d"
WordTitle(position, confidence) ==
    BboxTitle(position) \o S_semi_space \o S_x_wconf \o S_space
        \o FormatInt(confidence)

\* Box.get_xml_tag
Box_get_xml_tag(box) ==
    Element("span",
            <<Attr("class", "ocrx_word"),
              Attr("title", WordTitle(box.position, box.confidence))>>,
            <<TextNode(box.content)>>)

\* LineBox.get_xml_tag: a space text node before each word span.
LineBox_get_xml_tag(line) ==
    Element("span",
            <<Attr("class", "ocr_line"),
              Attr("title", BboxTitle(line.position))>>,
            Concat([k \in 1..Len(line.word_boxes) |->
                      <<TextNode(S_space),
                        Box_get_xml_tag(line.word_boxes[k])>>]))

NL == <<"\n">>
NLTab == <<"\n", "\t">>

\* _XHTML_HEADER followed by "<body>\n"
HeaderEvents ==
    <<Data(NL),
      Start("html", <<Attr("xmlns", "http://www.w3.org/1999/xhtml")>>),
      Data(NL), Start("head", <<>>), Data(NLTab),
      Start("meta", <<Attr("http-equiv", "content-type"),
                      Attr("content", "text/html; charset=utf-8")>>),
      End("meta"), Data(NLTab),
      Start("title", <<>>),
      Data(<<"O", "C", "R", " ", "o", "u", "t", "p", "u", "t">>),
      End("title"), Data(NL), End("head"), Data(NL),
      Start("body", <<>>), Data(NL)>>

\* "</body>\n</html>\n"
TrailerEvents == <<End("body"), Data(NL), End("html"), Data(NL)>>

\* "<p>" + xml_str + "</p>\n"
ParagraphEvents(node) ==
    <<Start("p", <<>>)>> \o XmlEvents(node) \o <<End("p"), Data(NL)>>

\* WordBoxBuilder.write_file: the events of the file it writes.
WordBoxBuilder_write_file(boxes) ==
    HeaderEvents
      \o Concat([k \in 1..Len(boxes) |->
                   ParagraphEvents(Box_get_xml_tag(boxes[k]))])
      \o TrailerEvents

\* LineBoxBuilder.write_file: the events of the file it writes.
LineBoxBuilder_write_file(lines) ==
    HeaderEvents
      \o Concat([k \in 1..Len(lines) |->
                   ParagraphEvents(LineBox_get_xml_tag(lines[k]))])
      \o TrailerEvents

-----------------------------------------------------------------------------
(* _WordHTMLParser                                                         *)

\* _WordHTMLParser.__parse_confidence: the first piece that starts with
\* x_wconf decides; ok = FALSE stands for the IndexError or ValueError.
RECURSIVE ParseConfidencePieces(_)
ParseConfidencePieces(pieces) ==
    IF pieces = <<>> THEN [ok |-> TRUE, v |-> 0]
    ELSE LET piece == Strip(Head(pieces))
         IN  IF ~StartsWith(piece, S_x_wconf)
             THEN ParseConfidencePieces(Tail(pieces))
             ELSE LET parts == Split(piece, S_space)
                  IN  IF Len(parts) < 2 THEN [ok |-> FALSE, v |-> 0]
                      ELSE ParseInt(parts[2])

\* A __parse_confidence that fails where there is no x_wconf.
WordHTMLParser_parse_confidence_required(title) ==
    LET pieces == Split(title, S_semi_space)
    IN  IF \E i \in 1..Len(pieces) : StartsWith(Strip(pieces[i]), S_x_wconf)
        THEN ParseConfidencePieces(pieces)
        ELSE [ok |-> FALSE, v |-> 0]

WordHTMLParser_parse_confidence(title) ==
    ParseConfidencePieces(Split(title, S_semi_space))

\* _WordHTMLParser.__parse_position: the first piece that starts with bbox
\* decides; ok = FALSE stands for the exception raised.
RECURSIVE ParsePositionPieces(_)
ParsePositionPieces(pieces) ==
    IF pieces = <<>> THEN [ok |-> FALSE, v |-> <<>>]
    ELSE LET piece == Strip(Head(pieces))
         IN  IF ~StartsWith(piece, S_bbox)
             THEN ParsePositionPieces(Tail(pieces))
             ELSE LET parts == Split(piece, S_space)
                  IN  IF Len(parts) < 5 THEN [ok |-> FALSE, v |-> <<>>]
                      ELSE LET a == ParseInt(parts[2])
                               b == ParseInt(parts[3])
                               c == ParseInt(parts[4])
                               d == ParseInt(parts[5])
                           IN  IF a.ok /\ b.ok /\ c.ok /\ d.ok
                               THEN [ok |-> TRUE,
                                     v |-> <<<<a.v, b.v>>, <<c.v, d.v>>>>]
                               ELSE [ok |-> FALSE, v |-> <<>>]

WordHTMLParser_parse_position(title) ==
    ParsePositionPieces(Split(title, S_semi_space))

\* _WordHTMLParser.__init__
WordHTMLParser_init ==
    [tag_types |-> <<>>,
     current_box_position |-> Absent,
     current_box_text |-> Absent,
     current_box_confidence |-> Absent,
     boxes |-> <<>>,
     current_line_position |-> Absent,
     current_line_content |-> <<>>,
     lines |-> <<>>,
     raised |-> FALSE]

\* The value of the last attribute called name, as the loops over attrs
\* leave it.
RECURSIVE AttrValue(_, _, _)
AttrValue(attrs, name, sofar) ==
    IF attrs = <<>> THEN sofar
    ELSE AttrValue(Tail(attrs), name,
                   IF Head(attrs).name = name THEN Some(Head(attrs).value)
                   ELSE sofar)

IsWordClass(tag_type) == tag_type = "ocr_word" \/ tag_type = "ocrx_word"

\* A handle_starttag that starts the text of a word before its title is
\* parsed.
WordHTMLParser_handle_starttag_eager(p, tag, attrs) ==
    IF tag # "span" THEN p
    ELSE
      LET position == AttrValue(attrs, "title", Absent)
          tag_type == AttrValue(attrs, "class", Absent)
      IN  IF position.none \/ tag_type.none THEN p
          ELSE IF IsWordClass(tag_type.v)
          THEN LET confidence == WordHTMLParser_parse_confidence(position.v)
                   bbox == WordHTMLParser_parse_position(position.v)
               IN  IF ~confidence.ok \/ ~bbox.ok
                   THEN [p EXCEPT
                           !.current_box_text = Some(<<>>),
                           !.tag_types = Append(@, "ignore")]
                   ELSE [p EXCEPT
                           !.current_box_confidence = Some(confidence.v),
                           !.current_box_position = Some(bbox.v),
                           !.current_box_text = Some(<<>>),
                           !.tag_types = Append(@, tag_type.v)]
          ELSE IF tag_type.v = "ocr_line"
          THEN LET bbox == WordHTMLParser_parse_position(position.v)
               IN  IF ~bbox.ok THEN [p EXCEPT !.raised = TRUE]
                   ELSE [p EXCEPT
                           !.current_line_position = Some(bbox.v),
                           !.current_line_content = <<>>,
                           !.tag_types = Append(@, tag_type.v)]
          ELSE [p EXCEPT !.tag_types = Append(@, tag_type.v)]

\* _WordHTMLParser.handle_starttag
WordHTMLParser_handle_starttag(p, tag, attrs) ==
    IF tag # "span" THEN p
    ELSE
      LET position == AttrValue(attrs, "title", Absent)
          tag_type == AttrValue(attrs, "class", Absent)
      IN  IF position.none \/ tag_type.none THEN p
          ELSE IF IsWordClass(tag_type.v)
          THEN LET confidence == WordHTMLParser_parse_confidence(position.v)
                   bbox == WordHTMLParser_parse_position(position.v)
               IN  IF ~confidence.ok \/ ~bbox.ok
                   THEN [p EXCEPT !.tag_types = Append(@, "ignore")]
                   ELSE [p EXCEPT
                           !.current_box_confidence = Some(confidence.v),
                           !.current_box_position = Some(bbox.v),
                           !.current_box_text = Some(<<>>),
                           !.tag_types = Append(@, tag_type.v)]
          ELSE IF tag_type.v = "ocr_line"
          THEN LET bbox == WordHTMLParser_parse_position(position.v)
               IN  IF ~bbox.ok THEN [p EXCEPT !.raised = TRUE]
                   ELSE [p EXCEPT
                           !.current_line_position = Some(bbox.v),
                           !.current_line_content = <<>>,
                           !.tag_types = Append(@, tag_type.v)]
          ELSE [p EXCEPT !.tag_types = Append(@, tag_type.v)]

\* _WordHTMLParser.handle_data
WordHTMLParser_handle_data(p, data) ==
    IF p.current_box_text.none THEN p
    ELSE [p EXCEPT !.current_box_text = Some(@.v \o data)]

\* handle_endtag that puts a closed word in the flat list only.
WordHTMLParser_handle_endtag_flat(p, tag) ==
    IF tag # "span" THEN p
    ELSE IF p.tag_types = <<>> THEN [p EXCEPT !.raised = TRUE]
    ELSE
      LET tag_type == Last(p.tag_types)
          q == [p EXCEPT !.tag_types = Front(@)]
      IN  IF IsWordClass(tag_type)
          THEN IF q.current_box_text.none THEN q
               ELSE LET box == Box(q.current_box_text.v,
                                   q.current_box_position.v,
                                   q.current_box_confidence.v)
                    IN  [q EXCEPT
                           !.boxes = Append(@, box),
                           !.current_box_text = Absent]
          ELSE IF tag_type = "ocr_line"
          THEN [q EXCEPT
                  !.lines = Append(@, LineBox(q.current_line_content,
                                              q.current_line_position.v)),
                  !.current_line_content = <<>>]
          ELSE q

\* _WordHTMLParser.handle_endtag; raised stands for the IndexError of a pop
\* from an empty list.
WordHTMLParser_handle_endtag(p, tag) ==
    IF tag # "span" THEN p
    ELSE IF p.tag_types = <<>> THEN [p EXCEPT !.raised = TRUE]
    ELSE
      LET tag_type == Last(p.tag_types)
          q == [p EXCEPT !.tag_types = Front(@)]
      IN  IF IsWordClass(tag_type)
          THEN IF q.current_box_text.none THEN q
               ELSE LET box == Box(q.current_box_text.v,
                                   q.current_box_position.v,
                                   q.current_box_confidence.v)
                    IN  [q EXCEPT
                           !.boxes = Append(@, box),
                           !.current_line_content = Append(@, box),
                           !.current_box_text = Absent]
          ELSE IF tag_type = "ocr_line"
          THEN [q EXCEPT
                  !.lines = Append(@, LineBox(q.current_line_content,
                                              q.current_line_position.v)),
                  !.current_line_content = <<>>]
          ELSE q

-----------------------------------------------------------------------------
(* _LineHTMLParser                                                         *)

\* _LineHTMLParser.__init__
LineHTMLParser_init ==
    [boxes |-> <<>>, line_text |-> Absent, char_positions |-> Absent,
     raised |-> FALSE]

\* The tag type the loop over attrs leaves: the last class that is ocr_line
\* (0) or ocr_cinfo (1) decides; -1 when there is none.
RECURSIVE LineTagType(_, _)
LineTagType(attrs, sofar) ==
    IF attrs = <<>> THEN sofar
    ELSE LineTagType(Tail(attrs),
            IF Head(attrs).name = "class" /\ Head(attrs).value = "ocr_line"
            THEN 0
            ELSE IF Head(attrs).name = "class"
                    /\ Head(attrs).value = "ocr_cinfo"
            THEN 1
            ELSE sofar)

\* A single list.remove("-1"): only the first occurrence goes.
RemoveAll_first(tokens, x) ==
    LET hits == {i \in 1..Len(tokens) : tokens[i] = x}
        first == CHOOSE i \in hits : \A j \in hits : i <= j
    IN  IF hits = {} THEN tokens
        ELSE SubSeq(tokens, 1, first - 1)
                \o SubSeq(tokens, first + 1, Len(tokens))

\* while True: list.remove("-1")
RemoveAll(tokens, x) ==
    LET keep == {i \in 1..Len(tokens) : tokens[i] # x}
        nth(k) == CHOOSE i \in keep : Cardinality({j \in keep : j <= i}) = k
    IN  [k \in 1..Cardinality(keep) |-> tokens[nth(k)]]

\* A handle_starttag whose content-region open keeps the coordinates left
\* by the line before.
LineHTMLParser_handle_starttag_keeping(p, tag, attrs) ==
    IF tag # "span" THEN p
    ELSE
      LET tag_type == LineTagType(attrs, -1)
      IN  IF tag_type = 0
          THEN [p EXCEPT !.line_text = Some(<<>>),
                         !.char_positions =
                             IF @.none THEN Some(<<>>) ELSE @]
          ELSE IF tag_type = 1
          THEN LET title == AttrValue(attrs, "title", Absent)
                   split == IF title.none THEN p.char_positions
                            ELSE Some(Split(title.v, S_space))
               IN  IF split.none \/ Len(split.v) <= 1
                   THEN [p EXCEPT !.raised = TRUE,
                                  !.char_positions =
                                      IF split.none THEN split
                                      ELSE Some(Tail(split.v))]
                   ELSE [p EXCEPT !.char_positions =
                            Some(RemoveAll(Tail(split.v), <<"-", "1">>))]
          ELSE p

\* _LineHTMLParser.handle_starttag; raised stands for the TypeError of
\* None[1:] and the IndexError of [][-1].
LineHTMLParser_handle_starttag(p, tag, attrs) ==
    IF tag # "span" THEN p
    ELSE
      LET tag_type == LineTagType(attrs, -1)
      IN  IF tag_type = 0
          THEN [p EXCEPT !.line_text = Some(<<>>),
                         !.char_positions = Some(<<>>)]
          ELSE IF tag_type = 1
          THEN LET title == AttrValue(attrs, "title", Absent)
                   split == IF title.none THEN p.char_positions
                            ELSE Some(Split(title.v, S_space))
               IN  IF split.none \/ Len(split.v) <= 1
                   THEN [p EXCEPT !.raised = TRUE,
                                  !.char_positions =
                                      IF split.none THEN split
                                      ELSE Some(Tail(split.v))]
                   ELSE [p EXCEPT !.char_positions =
                            Some(RemoveAll(Tail(split.v), <<"-", "1">>))]
          ELSE p

\* _LineHTMLParser.handle_data
LineHTMLParser_handle_data(p, data) ==
    IF p.line_text.none THEN p
    ELSE [p EXCEPT !.line_text = Some(@.v \o data)]

\* The body of the loop over words in handle_endtag. st holds the boxes and
\* the coordinate tokens left; raised stands for the IndexError of a token
\* that is not there and the ValueError of one that is no integer.
RECURSIVE LineWords(_, _)
LineWords(st, words) ==
    IF words = <<>> \/ st.raised THEN st
    ELSE IF Head(words) = <<>> THEN LineWords(st, Tail(words))
    ELSE
      LET word == Head(words)
          n == 4 * Len(word)
          have == IF Len(st.cp) < n THEN Len(st.cp) ELSE n
          positions == SubSeq(st.cp, 1, have)
          rest == SubSeq(st.cp, have + 1, Len(st.cp))
          ints == [i \in 1..have |-> ParseInt(positions[i])]
          good == have = n /\ \A i \in 1..n : ints[i].ok
          col(k) == {ints[i].v : i \in {j \in 1..n : j % 4 = k}}
      IN  IF ~good THEN [st EXCEPT !.raised = TRUE, !.cp = rest]
          ELSE LineWords(
                 [st EXCEPT
                    !.cp = rest,
                    !.boxes = Append(@,
                        Box(word, <<<<Min(col(1)), Min(col(2))>>,
                                    <<Max(col(3)), Max(col(0))>>>>, 0))],
                 Tail(words))

\* _LineHTMLParser.handle_endtag: any end tag, not only a span's.
LineHTMLParser_handle_endtag(p, tag) ==
    IF p.line_text.none \/ p.char_positions = Some(<<>>) THEN p
    ELSE
      LET st == LineWords([boxes |-> p.boxes, cp |-> p.char_positions.v,
                           raised |-> FALSE],
                          Split(p.line_text.v, S_space))
      IN  IF st.raised
          THEN [p EXCEPT !.boxes = st.boxes,
                         !.char_positions = Some(st.cp),
                         !.raised = TRUE]
          ELSE [p EXCEPT !.boxes = st.boxes,
                         !.char_positions = Some(st.cp),
                         !.line_text = Absent]

-----------------------------------------------------------------------------
(* read_file: the parsers are fed in turn; the first with boxes answers.   *)

\* One event of HTMLParser.feed, for each parser.
WordHTMLParser_dispatch(p, ev) ==
    IF ev.type = "start" THEN WordHTMLParser_handle_starttag(p, ev.tag, ev.attrs)
    ELSE IF ev.type = "data" THEN WordHTMLParser_handle_data(p, ev.data)
    ELSE WordHTMLParser_handle_endtag(p, ev.tag)

LineHTMLParser_dispatch(p, ev) ==
    IF ev.type = "start" THEN LineHTMLParser_handle_starttag(p, ev.tag, ev.attrs)
    ELSE IF ev.type = "data" THEN LineHTMLParser_handle_data(p, ev.data)
    ELSE LineHTMLParser_handle_endtag(p, ev.tag)

\* parser.feed(html_str) as a whole: the events in order, up to the first
\* handler that raises.
RECURSIVE WordHTMLParser_feed(_, _)
WordHTMLParser_feed(p, events) ==
    IF events = <<>> \/ p.raised THEN p
    ELSE WordHTMLParser_feed(WordHTMLParser_dispatch(p, Head(events)),
                             Tail(events))

RECURSIVE LineHTMLParser_feed(_, _)
LineHTMLParser_feed(p, events) ==
    IF events = <<>> \/ p.raised THEN p
    ELSE LineHTMLParser_feed(LineHTMLParser_dispatch(p, Head(events)),
                             Tail(events))

\* A test that is off by one: a parser with a single box is passed over.
HasBoxes_many(boxes) == Len(boxes) > 1

\* len(p.boxes) > 0
HasBoxes(boxes) == Len(boxes) > 0

\* A trim that drops the last box whatever its content.
TrimLast_any(boxes) == Front(boxes)

\* if last_box.content == "": p.boxes.pop(-1)
TrimLast(boxes) ==
    IF Last(boxes).content = <<>> THEN Front(boxes) ELSE boxes

\* lambda parser: [LineBox([box], box.position) for box in parser.boxes]
BoxesAsLines(boxes) ==
    [k \in 1..Len(boxes) |-> LineBox(<<boxes[k]>>, boxes[k].position)]

-----------------------------------------------------------------------------
(* Documents.                                                              *)

P1 == <<<<1, 2>>, <<30, 4>>>>
P2 == <<<<-5, 0>>, <<7, -12>>>>
P3 == <<<<0, 10>>, <<105, 29>>>>

T_a == <<"a">>
T_Hi == <<"H", "i">>
T_escapes == <<"<", "&", ">", "\"">>
T_entity == <<"&", "l", "t", ";">>
T_spaced == <<" ", "b", " ", "c">>

\* What write_file is given.
InputBoxes ==
    {Box(T_a, P1, 95), Box(<<>>, P2, 0), Box(T_escapes, P2, -3),
     Box(T_entity, P3, 7), Box(T_spaced, P1, 100)}

InputLines ==
    {LineBox(<<>>, P1), LineBox(<<>>, P3),
     LineBox(<<Box(T_a, P1, 95)>>, P3),
     LineBox(<<Box(<<>>, P2, 0)>>, P1),
     LineBox(<<Box(T_spaced, P1, 100), Box(<<>>, P2, 0)>>, P3),
     LineBox(<<Box(T_escapes, P2, -3), Box(T_entity, P3, 7)>>, P2)}

\* The span structure of a document of an OCR tool. A word is a span of
\* class cls with title by form; a line is an ocr_line span around words,
\* each after a space; a "plain" span has no attribute; a "bline" is a
\* line of the character-position dialect: an ocr_line span holding the
\* text, then an ocr_cinfo span whose title holds the coordinates.
Node(kind, cls, form, position, conf, text, words) ==
    [kind |-> kind, cls |-> cls, form |-> form, pos |-> position,
     conf |-> conf, text |-> text, words |-> words]

WordNode(cls, form, position, conf, text) ==
    Node("word", cls, form, position, conf, text, <<>>)
LineNode(form, position, words) ==
    Node("line", "ocr_line", form, position, 0, <<>>, words)
PlainNode(words) == Node("plain", "", "none", P1, 0, <<>>, words)
BLineNode(position, text, coords) ==
    Node("bline", "ocr_line", "full", position, 0, text, coords)

\* The title attribute of a node: "full" has bbox and, for a word, x_wconf;
\* "noconf" has only bbox; "nobbox" has only x_wconf.
TitleOf(node) ==
    IF node.form = "nobbox"
    THEN S_x_wconf \o S_space \o FormatInt(node.conf)
    ELSE IF node.kind = "word" /\ node.form = "full"
    THEN WordTitle(node.pos, node.conf)
    ELSE BboxTitle(node.pos)

RECURSIVE Render(_)
RenderAll(nodes) == Concat([k \in 1..Len(nodes) |-> Render(nodes[k])])
Render(node) ==
    IF node.kind = "word"
    THEN <<Start("span", <<Attr("class", node.cls),
                           Attr("title", TitleOf(node))>>)>>
           \o (IF node.text = <<>> THEN <<>> ELSE <<Data(node.text)>>)
           \o <<End("span")>>
    ELSE IF node.kind = "line"
    THEN <<Start("span", <<Attr("class", node.cls),
                           Attr("title", TitleOf(node))>>)>>
           \o Concat([k \in 1..Len(node.words) |->
                        <<Data(S_space)>> \o Render(node.words[k])])
           \o <<End("span")>>
    ELSE IF node.kind = "plain"
    THEN <<Start("span", <<>>)>> \o RenderAll(node.words) \o <<End("span")>>
    ELSE <<Start("span", <<Attr("class", node.cls),
                           Attr("title", TitleOf(node))>>),
           Data(node.text),
           Start("span", <<Attr("class", "ocr_cinfo"),
                           Attr("title", Join(<<S_x_bboxes>> \o node.words,
                                              S_space))>>),
           End("span"), End("span")>>

W_Hi == WordNode("ocrx_word", "full", P1, 95, T_Hi)
W_a == WordNode("ocr_word", "full", P2, -3, T_a)
W_empty == WordNode("ocrx_word", "full", P3, 0, <<>>)
W_spaced == WordNode("ocr_word", "full", P1, 100, T_spaced)
W_noconf == WordNode("ocrx_word", "noconf", P2, 0, T_a)
W_nobbox == WordNode("ocrx_word", "nobbox", P1, 42, T_a)

Tok(n) == FormatInt(n)
Sentinel == <<Tok(-1), Tok(-1), Tok(-1), Tok(-1)>>

\* "Hi x": two characters, a space, one character.
B_Hi_x ==
    BLineNode(P3, <<"H", "i", " ", "x">>,
              <<Tok(4), Tok(12), Tok(9), Tok(28),
                Tok(11), Tok(10), Tok(14), Tok(27)>>
                \o Sentinel \o <<Tok(20), Tok(15), Tok(26), Tok(29)>>)

\* "Hi" with the coordinates of one character only.
B_short ==
    BLineNode(P3, T_Hi, <<Tok(4), Tok(12), Tok(9), Tok(28)>>)

\* "a" with the coordinates of a space only.
B_blank == BLineNode(P2, T_a, Sentinel)

\* "x" with a coordinate that is -1, and the coordinates of one character
\* more than the text has.
B_left ==
    BLineNode(P1, <<"x">>,
              <<Tok(-1), Tok(3), Tok(5), Tok(8), Tok(2),
                Tok(40), Tok(41), Tok(42), Tok(43)>>)

\* A line of the word dialect whose only word has a title without bbox.
L_old == LineNode("full", P2, <<W_nobbox>>)

TopNodes ==
    {LineNode("full", P3, <<W_Hi>>),
     LineNode("full", P1, <<W_a, W_empty>>),
     LineNode("full", P2, <<>>),
     LineNode("nobbox", P1, <<W_a>>),
     W_empty, W_spaced, W_noconf, W_nobbox,
     PlainNode(<<W_Hi>>),
     B_Hi_x, B_short, B_blank, B_left, L_old}

-----------------------------------------------------------------------------
(* The reading scenario.                                                   *)

Init ==
    /\ ra = None /\ rb = None /\ cres = [done |-> FALSE]
    /\ hres = [done |-> FALSE] /\ pcc = "off"
    /\ origin = "" /\ mode = "" /\ input = <<>> /\ src = <<>> /\ doc = <<>>
    /\ pi = 0 /\ pos = 0
    /\ wp = WordHTMLParser_init /\ lp = LineHTMLParser_init
    /\ result = <<>>
    /\ pc = "idle"
    /\ built_text = <<>> /\ lb_lines = <<>> /\ calls = <<>>
    /\ output = [done |-> FALSE] /\ pcb = "off"

\* WordBoxBuilder.write_file(file_descriptor, boxes)
WriteWordFile ==
    /\ pc = "idle"
    /\ \E boxes \in SeqsUpTo(InputBoxes, MaxBoxes) :
         /\ input' = boxes
         /\ doc' = WordBoxBuilder_write_file(boxes)
    /\ origin' = "write" /\ mode' = "word" /\ pc' = "ready"
    /\ UNCHANGED <<cvars, bvars, src, pi, pos, wp, lp, result>>

\* LineBoxBuilder.write_file(file_descriptor, boxes)
WriteLineFile ==
    /\ pc = "idle"
    /\ \E lines \in SeqsUpTo(InputLines, MaxLines) :
         /\ input' = lines
         /\ doc' = LineBoxBuilder_write_file(lines)
    /\ origin' = "write" /\ mode' = "line" /\ pc' = "ready"
    /\ UNCHANGED <<cvars, bvars, src, pi, pos, wp, lp, result>>

\* An OCR tool wrote the file; either builder will read it.
ToolOutput ==
    /\ pc = "idle"
    /\ \E nodes \in SeqsUpTo(TopNodes, MaxTop) :
         /\ src' = nodes
         /\ doc' = RenderAll(nodes)
    /\ mode' \in {"word", "line"}
    /\ origin' = "raw" /\ pc' = "ready"
    /\ UNCHANGED <<cvars, bvars, input, pi, pos, wp, lp, result>>

\* read_file, up to the first feed: parsers = [...]; html_str = fd.read()
ReadFile ==
    /\ pc = "ready"
    /\ wp' = WordHTMLParser_init
    /\ lp' = LineHTMLParser_init
    /\ pi' = 1 /\ pos' = 1 /\ pc' = "feeding"
    /\ UNCHANGED <<cvars, bvars, origin, mode, input, src, doc, result>>

Feeding(i, type) ==
    pc = "feeding" /\ pi = i /\ pos <= Len(doc) /\ doc[pos].type = type

Fed(p) ==
    /\ pos' = pos + 1
    /\ pc' = IF p.raised THEN "raised" ELSE "feeding"
    /\ UNCHANGED <<cvars, bvars, origin, mode, input, src, doc, pi, result>>

WordParserStartTag ==
    /\ Feeding(1, "start")
    /\ wp' = WordHTMLParser_handle_starttag(wp, doc[pos].tag, doc[pos].attrs)
    /\ Fed(wp') /\ UNCHANGED lp

WordParserData ==
    /\ Feeding(1, "data")
    /\ wp' = WordHTMLParser_handle_data(wp, doc[pos].data)
    /\ Fed(wp') /\ UNCHANGED lp

WordParserEndTag ==
    /\ Feeding(1, "end")
    /\ wp' = WordHTMLParser_handle_endtag(wp, doc[pos].tag)
    /\ Fed(wp') /\ UNCHANGED lp

LineParserStartTag ==
    /\ Feeding(2, "start")
    /\ lp' = LineHTMLParser_handle_starttag(lp, doc[pos].tag, doc[pos].attrs)
    /\ Fed(lp') /\ UNCHANGED wp

LineParserData ==
    /\ Feeding(2, "data")
    /\ lp' = LineHTMLParser_handle_data(lp, doc[pos].data)
    /\ Fed(lp') /\ UNCHANGED wp

LineParserEndTag ==
    /\ Feeding(2, "end")
    /\ lp' = LineHTMLParser_handle_endtag(lp, doc[pos].tag)
    /\ Fed(lp') /\ UNCHANGED wp

\* The boxes of the parser just fed.
FedBoxes == IF pi = 1 THEN wp.boxes ELSE lp.boxes

\* After a feed, in either read_file: the parser has boxes and answers, or
\* the next parser is fed, or there is none left and [] is returned.
\* answer is what is returned once p.boxes was trimmed.
Answer(answer) ==
    /\ pc = "feeding" /\ pos > Len(doc)
    /\ IF HasBoxes(FedBoxes)
       THEN /\ wp' = IF pi = 1 THEN [wp EXCEPT !.boxes = TrimLast(@)] ELSE wp
            /\ lp' = IF pi = 2 THEN [lp EXCEPT !.boxes = TrimLast(@)] ELSE lp
            /\ result' = answer
            /\ pc' = "done"
            /\ UNCHANGED <<pi, pos>>
       ELSE IF pi = 1
       THEN /\ pi' = 2 /\ pos' = 1
            /\ UNCHANGED <<wp, lp, result, pc>>
       ELSE /\ result' = <<>> /\ pc' = "done"
            /\ UNCHANGED <<wp, lp, pi, pos>>
    /\ UNCHANGED <<cvars, bvars, origin, mode, input, src, doc>>

\* return p.boxes
WordAnswer == TrimLast(FedBoxes)

\* WordBoxBuilder.read_file, after a feed
WordBoxBuilderAnswer ==
    /\ mode = "word"
    /\ Answer(WordAnswer)

\* The two conversions of LineBoxBuilder.read_file.
LineAnswer ==
    IF pi = 1 THEN wp.lines ELSE BoxesAsLines(TrimLast(FedBoxes))

\* LineBoxBuilder.read_file, after a feed
LineBoxBuilderAnswer ==
    /\ mode = "line"
    /\ Answer(LineAnswer)

Next ==
    \/ WriteWordFile \/ WriteLineFile \/ ToolOutput \/ ReadFile
    \/ WordParserStartTag \/ WordParserData \/ WordParserEndTag
    \/ LineParserStartTag \/ LineParserData \/ LineParserEndTag
    \/ WordBoxBuilderAnswer \/ LineBoxBuilderAnswer

Spec == Init /\ [][Next]_vars

-----------------------------------------------------------------------------
(* The comparison scenario: two regions are drawn, compared, then hashed.  *)

Coord == {CoordStep * c - 1 : c \in 0..MaxCoord}

Positions == {<<<<x1, y1>>, <<x2, y2>>>> : x1 \in Coord, y1 \in Coord,
                                           x2 \in Coord, y2 \in Coord}

OtherPosition == <<<<3, 4>>, <<5, 6>>>>

\* Regions of both classes, with differing content and confidence.
LeftRegions ==
    {Box(<<"a">>, p, 0) : p \in Positions}
      \cup {Box(<<>>, p, 9) : p \in Positions}
      \cup {LineBox(<<Box(<<"a">>, OtherPosition, 0),
                      Box(<<"b">>, p, 7)>>, p) : p \in Positions}

\* A position whose coordinates differ from those of p by multiples of 256.
Shifted(p) ==
    <<<<p[1][1] + 256, p[1][2] - 256>>, <<p[2][1], p[2][2] + 512>>>>

RightRegions ==
    {Box(<<"b", " ">>, p, 5) : p \in Positions}
      \cup {LineBox(<<>>, p) : p \in Positions}
      \cup {Box(<<"c">>, Shifted(p), 1) : p \in {q \in Positions : q[1] = q[2]}}

Salts == {-3, 11}

NoResult == [done |-> FALSE]

InitCmp ==
    /\ ra = None
    /\ rb = None
    /\ cres = NoResult
    /\ hres = NoResult
    /\ pcc = "idle"
    /\ origin = "" /\ mode = "" /\ input = <<>> /\ src = <<>> /\ doc = <<>>
    /\ pi = 0 /\ pos = 0
    /\ wp = WordHTMLParser_init /\ lp = LineHTMLParser_init
    /\ result = <<>>
    /\ pc = "off"
    /\ built_text = <<>> /\ lb_lines = <<>> /\ calls = <<>>
    /\ output = [done |-> FALSE] /\ pcb = "off"

\* a < b, a > b, a == b, a <= b, a >= b, a != b
Compare ==
    /\ pcc = "idle"
    /\ \E a \in LeftRegions, b \in RightRegions \cup {None} :
         /\ ra' = a
         /\ rb' = b
         /\ cres' = [done |-> TRUE,
                     lt |-> Region_lt(a, b), gt |-> Region_gt(a, b),
                     eq |-> Region_eq(a, b), le |-> Region_le(a, b),
                     ge |-> Region_ge(a, b), ne |-> Region_ne(a, b)]
    /\ pcc' = "compared"
    /\ UNCHANGED <<hres, rvars, bvars>>

\* hash(a), hash(b), in one interpreter process
Hash ==
    /\ pcc = "compared"
    /\ rb.kind # "None"
    /\ \E salt \in Salts :
         hres' = [done |-> TRUE, a |-> Region_hash(ra, salt),
                  b |-> Region_hash(rb, salt)]
    /\ pcc' = "hashed"
    /\ UNCHANGED <<ra, rb, cres, rvars, bvars>>

NextCmp == Compare \/ Hash

SpecCmp == InitCmp /\ [][NextCmp]_vars

-----------------------------------------------------------------------------
(* The building scenario: a builder is made, then given lines and words    *)
(* as image_to_string does, and asked for its output.                      *)

NoOutput == [done |-> FALSE]

\* The words and the positions handed to the builders.
BuildWords == {<<>>, <<" ">>, <<"a">>, <<" ", "b", " ">>}
BuildConfidence == 50

InitBuild ==
    /\ ra = None /\ rb = None /\ cres = NoResult /\ hres = NoResult
    /\ pcc = "off"
    /\ origin = "" /\ mode = "" /\ input = <<>> /\ src = <<>> /\ doc = <<>>
    /\ pi = 0 /\ pos = 0
    /\ wp = WordHTMLParser_init /\ lp = LineHTMLParser_init
    /\ result = <<>>
    /\ pc = "off"
    /\ built_text = <<>> /\ lb_lines = <<>> /\ calls = <<>>
    /\ output = NoOutput /\ pcb = "new"

\* A call of start_line or add_word on the builder in use.
Called(call) ==
    /\ Len(calls) < MaxCalls
    /\ calls' = Append(calls, call)
    /\ output' = NoOutput
    /\ UNCHANGED <<cvars, rvars>>

\* TextBuilder.__init__: self.built_text = []
TextBuilder_init ==
    /\ pcb = "new"
    /\ built_text' = <<>> /\ pcb' = "text"
    /\ UNCHANGED <<cvars, rvars, lb_lines, calls, output>>

\* TextBuilder.start_line(box)
TextBuilder_start_line ==
    /\ pcb = "text"
    /\ built_text' = Append(built_text, <<>>)
    /\ Called([op |-> "start_line"])
    /\ UNCHANGED <<lb_lines, pcb>>

\* TextBuilder.add_word(word, box, confidence): built_text[-1] of an empty
\* list raises IndexError.
TextBuilder_add_word ==
    /\ pcb = "text"
    /\ \E word \in BuildWords :
         /\ Called([op |-> "add_word", word |-> word])
         /\ IF built_text = <<>>
            THEN pcb' = "raised" /\ UNCHANGED built_text
            ELSE /\ built_text' =
                      [built_text EXCEPT ![Len(built_text)] =
                          IF @ # <<>> THEN @ \o <<" ">> \o word
                          ELSE @ \o word]
                 /\ UNCHANGED pcb
    /\ UNCHANGED lb_lines

\* TextBuilder.get_output(): "\n".join(self.built_text)
TextBuilder_get_output ==
    /\ pcb = "text" /\ ~output.done
    /\ output' = [done |-> TRUE, v |-> Join(built_text, <<"\n">>)]
    /\ UNCHANGED <<cvars, rvars, built_text, lb_lines, calls, pcb>>

\* LineBoxBuilder.__init__: self.lines = []
LineBoxBuilder_init ==
    /\ pcb = "new"
    /\ lb_lines' = <<>> /\ pcb' = "line"
    /\ UNCHANGED <<cvars, rvars, built_text, calls, output>>

\* A start_line that adds a line whatever the last one holds.
LineBoxBuilder_start_line_always ==
    /\ pcb = "line"
    /\ \E box \in {P1, P2} :
         /\ Called([op |-> "start_line", box |-> box])
         /\ lb_lines' = Append(lb_lines, LineBox(<<>>, box))
    /\ UNCHANGED <<built_text, pcb>>

\* LineBoxBuilder.start_line(box): no line is added after an empty one.
LineBoxBuilder_start_line ==
    /\ pcb = "line"
    /\ \E box \in {P1, P2} :
         /\ Called([op |-> "start_line", box |-> box])
         /\ lb_lines' =
              IF Len(lb_lines) > 0 /\ ContentOf(Last(lb_lines)) = <<>>
              THEN lb_lines
              ELSE Append(lb_lines, LineBox(<<>>, box))
    /\ UNCHANGED <<built_text, pcb>>

\* LineBoxBuilder.add_word(word, box, confidence): lines[-1] of an empty
\* list raises IndexError.
LineBoxBuilder_add_word ==
    /\ pcb = "line"
    /\ \E word \in BuildWords :
         /\ Called([op |-> "add_word", word |-> word])
         /\ IF lb_lines = <<>>
            THEN pcb' = "raised" /\ UNCHANGED lb_lines
            ELSE /\ lb_lines' =
                      [lb_lines EXCEPT ![Len(lb_lines)].word_boxes =
                          Append(@, Box(word, P3, BuildConfidence))]
                 /\ UNCHANGED pcb
    /\ UNCHANGED built_text

\* LineBoxBuilder.get_output(): self.lines; v holds the lines and contents
\* the content each of them answers when read.
LineBoxBuilder_get_output ==
    /\ pcb = "line" /\ ~output.done
    /\ output' = [done |-> TRUE, v |-> lb_lines,
                  contents |-> [k \in 1..Len(lb_lines) |->
                                   ContentOf(lb_lines[k])]]
    /\ UNCHANGED <<cvars, rvars, built_text, lb_lines, calls, pcb>>

NextBuild ==
    \/ TextBuilder_init \/ TextBuilder_start_line \/ TextBuilder_add_word
    \/ TextBuilder_get_output
    \/ LineBoxBuilder_init \/ LineBoxBuilder_start_line
    \/ LineBoxBuilder_add_word \/ LineBoxBuilder_get_output

SpecBuild == InitBuild /\ [][NextBuild]_vars

-----------------------------------------------------------------------------
(* Properties of the ordering and of the hash, under SpecCmp.              *)

\* The key of the spec: (top.y, bottom.y, top.x, bottom.x).
Key(r) == <<r.position[1][2], r.position[2][2],
            r.position[1][1], r.position[2][1]>>

LexLess(k, l) ==
    \E i \in 1..4 : k[i] < l[i] /\ \A j \in 1..(i - 1) : k[j] = l[j]

Compared == cres.done /\ rb.kind # "None"

\* C3: for two regions a and b, a < b iff key(a) is lexicographically less
\* than key(b), a == b iff the keys are equal, and >, <=, >=, != are the
\* corresponding relations on the keys.
C3_LexicographicOrder ==
    Compared =>
        /\ cres.lt = LexLess(Key(ra), Key(rb))
        /\ cres.eq = (Key(ra) = Key(rb))
        /\ cres.gt = LexLess(Key(rb), Key(ra))
        /\ cres.le = (LexLess(Key(ra), Key(rb)) \/ Key(ra) = Key(rb))
        /\ cres.ge = (LexLess(Key(rb), Key(ra)) \/ Key(ra) = Key(rb))
        /\ cres.ne = (Key(ra) # Key(rb))

\* A LineBox and a Box that differ only in the x of the top-left corner, the
\* third key, with the x of the bottom-right corner ordered the other way.
C3_Witness ==
    /\ Compared
    /\ ra.kind = "LineBox" /\ rb.kind = "Box"
    /\ ra.position[1][2] = rb.position[1][2]
    /\ ra.position[2][2] = rb.position[2][2]
    /\ ra.position[1][1] < rb.position[1][1]
    /\ ra.position[2][1] > rb.position[2][1]
    /\ cres.lt

\* C4: for two non-None regions exactly one of a < b, a == b, a > b holds;
\* < is irreflexive, and transitive over any three regions, as is the
\* equivalence of regions that are neither less nor greater.
C4_StrictWeakOrder ==
    Compared =>
        /\ (cres.lt /\ ~cres.eq /\ ~cres.gt)
             \/ (~cres.lt /\ cres.eq /\ ~cres.gt)
             \/ (~cres.lt /\ ~cres.eq /\ cres.gt)
        /\ ~Region_lt(ra, ra) /\ ~Region_lt(rb, rb)
        /\ ~Region_gt(ra, ra) /\ ~Region_gt(rb, rb)
        /\ \A c \in RightRegions :
             /\ (cres.lt /\ Region_lt(rb, c)) => Region_lt(ra, c)
             /\ (cres.gt /\ Region_gt(rb, c)) => Region_gt(ra, c)
             /\ (cres.eq /\ Region_eq(rb, c)) => Region_eq(ra, c)

\* Two regions with a < b for which some third region c has b < c.
C4_Witness ==
    /\ Compared
    /\ cres.lt
    /\ \E c \in RightRegions : Region_lt(rb, c) /\ Region_lt(ra, c)

\* C5 as stated: r < None is false, r > None is true, r != None is true.
C5_NoneIsLess ==
    (cres.done /\ rb.kind = "None") => (~cres.lt /\ cres.gt /\ cres.ne)

\* C5, amended: __box_cmp answers -1 against None, so for every region r,
\* r < None is true, r > None is false and r != None is true.
C5_RegionIsLessThanNone ==
    (cres.done /\ rb.kind = "None") =>
        (cres.lt /\ ~cres.gt /\ cres.ne /\ ~cres.eq /\ cres.le /\ ~cres.ge)

C5_Witness ==
    cres.done /\ rb.kind = "None" /\ ra.kind = "Box" /\ cres.lt

\* C6: two regions with the same rectangle are equal and hash the same,
\* whatever their content and confidence; a == b implies equal hashes.
C6_GeometricEqualityAndHash ==
    hres.done =>
        /\ (ra.position = rb.position) => (cres.eq /\ hres.a = hres.b)
        /\ cres.eq => (hres.a = hres.b)

\* Same rectangle, different classes and different text.
C6_Witness ==
    /\ hres.done
    /\ ra.position = rb.position
    /\ ra.kind = "LineBox" /\ rb.kind = "Box"
    /\ ContentOf(ra) # ContentOf(rb)
    /\ ContentOf(ra) # <<>> /\ ContentOf(rb) # <<>>
    /\ hres.a = hres.b

\* The number (x1 mod 256) + (y1 mod 256)*2^8 + (x2 mod 256)*2^16
\* + (y2 mod 256)*2^24 in base 256, least significant digit first: its
\* digits beyond the fourth are 0, as for any number in 0 .. 2^32-1.
PackedRectangle(position) ==
    [i \in 1..HashBytes |->
        IF i = 1 THEN position[1][1] % 256
        ELSE IF i = 2 THEN position[1][2] % 256
        ELSE IF i = 3 THEN position[2][1] % 256
        ELSE IF i = 4 THEN position[2][2] % 256
        ELSE 0]

Congruent(p, q) ==
    \A i \in 1..2, j \in 1..2 : (p[i][j] - q[i][j]) % 256 = 0

\* C20: the hash of a region with rectangle ((x1,y1),(x2,y2)) is
\* (x1 mod 256) + (y1 mod 256)*2^8 + (x2 mod 256)*2^16 + (y2 mod 256)*2^24,
\* whatever the content; it lies in 0 .. 2^32-1, and regions whose
\* coordinates are congruent modulo 256 hash the same.
C20_HashValue ==
    hres.done =>
        /\ hres.a = PackedRectangle(ra.position)
        /\ hres.b = PackedRectangle(rb.position)
        /\ Congruent(ra.position, rb.position) => hres.a = hres.b

\* Two regions with different rectangles, congruent modulo 256, one with a
\* negative coordinate and one with a coordinate beyond a byte.
C20_Witness ==
    /\ hres.done
    /\ ra.position # rb.position
    /\ Congruent(ra.position, rb.position)
    /\ ra.position[1][2] < 0 /\ rb.position[1][1] > 255
    /\ ra.position[1][2] # ra.position[1][1]
    /\ hres.a = hres.b

-----------------------------------------------------------------------------
(* Properties of read_file and write_file, under Spec.                     *)

Finished == pc \in {"done", "raised"}

\* The trim rule of the spec: a last element with empty content is dropped.
DropTrailingEmpty(regions) ==
    IF regions # <<>> /\ ContentOf(Last(regions)) = <<>>
    THEN Front(regions) ELSE regions

\* What each parser makes of the whole document.
WordParsed == WordHTMLParser_feed(WordHTMLParser_init, doc)
LineParsed == LineHTMLParser_feed(LineHTMLParser_init, doc)

\* C1: reading back what WordBoxBuilder.write_file wrote for a list of
\* boxes returns the boxes, in order, with the same position, confidence
\* and content, except that a final box with empty content is dropped.
C1_WordRoundTrip ==
    (Finished /\ origin = "write" /\ mode = "word") =>
        (pc = "done" /\ result = DropTrailingEmpty(input))

\* Two boxes written, the first kept with its escaped text and its negative
\* numbers, the second, empty, dropped.
C1_Witness ==
    /\ pc = "done" /\ origin = "write" /\ mode = "word"
    /\ Len(input) = 2
    /\ input[1].content = T_escapes /\ input[1].confidence < 0
    /\ input[2].content = <<>>
    /\ result = <<input[1]>>

\* C2 as stated: reading back what LineBoxBuilder.write_file wrote for a
\* list of lines returns the lines, in order, each with its position and
\* its words, up to the trim of a final line with empty content.
C2_LineRoundTrip ==
    (Finished /\ origin = "write" /\ mode = "line") =>
        (pc = "done" /\ (result = input \/ result = DropTrailingEmpty(input)))

\* C7: WordBoxBuilder.read_file returns the boxes of the word-tag parser
\* when it made any, else those of the character-position parser when it
\* made any, else the empty list; an empty document gives the empty list.
\* (Once trimmed; a parser that raises has made nothing.)
C7_ResultSelection ==
    (Finished /\ mode = "word") =>
        /\ (~WordParsed.raised /\ WordParsed.boxes # <<>>) =>
             (pc = "done" /\ result = DropTrailingEmpty(WordParsed.boxes))
        /\ (~WordParsed.raised /\ WordParsed.boxes = <<>>
              /\ ~LineParsed.raised /\ LineParsed.boxes # <<>>) =>
             (pc = "done" /\ result = DropTrailingEmpty(LineParsed.boxes))
        /\ (~WordParsed.raised /\ WordParsed.boxes = <<>>
              /\ ~LineParsed.raised /\ LineParsed.boxes = <<>>) =>
             (pc = "done" /\ result = <<>>)
        /\ (doc = <<>>) => (pc = "done" /\ result = <<>>)

\* A document of which both parsers make boxes: the word-tag parser's are
\* returned.
C7_Witness ==
    /\ pc = "done" /\ mode = "word"
    /\ WordParsed.boxes # <<>>
    /\ ~LineParsed.raised /\ LineParsed.boxes # <<>>
    /\ result = WordParsed.boxes
    /\ result # LineParsed.boxes

\* The boxes of the parser read_file selects: the first that made any.
Selected ==
    IF WordParsed.boxes # <<>> THEN WordParsed.boxes ELSE LineParsed.boxes

\* C8: what WordBoxBuilder.read_file returns is the selected parser's boxes
\* without the last one if and only if that one's content is empty; at most
\* one is removed, and the others are kept as they are.
C8_TrailingTrim ==
    (pc = "done" /\ mode = "word") =>
        /\ Len(result) \in {Len(Selected), Len(Selected) - 1}
        /\ \A i \in 1..Len(result) : result[i] = Selected[i]
        /\ (Len(result) = Len(Selected) - 1)
             <=> (Selected # <<>> /\ Last(Selected).content = <<>>)

\* Two boxes with empty content were parsed: only the last is removed.
C8_Witness ==
    /\ pc = "done" /\ mode = "word"
    /\ Len(Selected) = 2
    /\ Selected[1].content = <<>> /\ Selected[2].content = <<>>
    /\ result = <<Selected[1]>>

\* The lines of the parser LineBoxBuilder.read_file selects.
SelectedLines ==
    IF WordParsed.boxes # <<>> THEN WordParsed.lines
    ELSE BoxesAsLines(LineParsed.boxes)

\* C9 as stated: when the last line of the parser LineBoxBuilder.read_file
\* selects has empty content, the lines returned are the parsed lines
\* without that last one.
C9_LineTrailingTrim ==
    (pc = "done" /\ mode = "line") =>
        ((SelectedLines # <<>> /\ ContentOf(Last(SelectedLines)) = <<>>)
            => result = Front(SelectedLines))

\* A document of line spans with a class and a bbox title, around word
\* spans with a class and a title of bbox and x_wconf.
WellFormedLines ==
    /\ origin = "raw"
    /\ \A k \in 1..Len(src) :
         /\ src[k].kind = "line" /\ src[k].form = "full"
         /\ \A j \in 1..Len(src[k].words) :
              src[k].words[j].kind = "word" /\ src[k].words[j].form = "full"

ExpectedBox(word) == Box(word.text, word.pos, word.conf)

ExpectedLine(line) ==
    LineBox([j \in 1..Len(line.words) |-> ExpectedBox(line.words[j])],
            line.pos)

\* C10: of such a document, the word-tag parser's lines are one LineBox per
\* line span, in order, with the span's bbox and the Boxes of its word
\* spans, each with its text, bbox and x_wconf; its boxes are all the word
\* Boxes in order. No handler raises.
C10_LineStructure ==
    WellFormedLines =>
        /\ pc # "raised"
        /\ (pc = "feeding" /\ pi = 1 /\ pos = Len(doc) + 1) =>
             /\ wp.lines = [k \in 1..Len(src) |-> ExpectedLine(src[k])]
             /\ wp.boxes = Concat([k \in 1..Len(src) |->
                                     ExpectedLine(src[k]).word_boxes])

\* Two lines were parsed, of two words and of one.
C10_Witness ==
    /\ WellFormedLines
    /\ pc = "feeding" /\ pi = 1 /\ pos = Len(doc) + 1
    /\ Len(wp.lines) = 2
    /\ Len(wp.lines[1].word_boxes) = 2
    /\ Len(wp.lines[2].word_boxes) = 1
    /\ Len(wp.boxes) = 3

-----------------------------------------------------------------------------
(* Properties of the two parsers, under Spec.                              *)

\* The event just dispatched to the word-tag parser, and the parser as it
\* was before that event.
WordFed == pi = 1 /\ pos > 1 /\ pos - 1 <= Len(doc)
LastEvent == doc[pos - 1]
WordBefore == WordHTMLParser_feed(WordHTMLParser_init, SubSeq(doc, 1, pos - 2))

\* The class and the title of a start tag, "" when it has none.
ClassOf(ev) ==
    LET c == AttrValue(ev.attrs, "class", Absent)
    IN  IF c.none THEN "" ELSE c.v

HasBboxToken(title) ==
    LET pieces == Split(title, S_semi_space)
    IN  \E i \in 1..Len(pieces) : StartsWith(Strip(pieces[i]), S_bbox)

\* A span open of a word or line class whose title has no bbox token.
LacksBbox(ev, classes) ==
    /\ ev.type = "start" /\ ev.tag = "span"
    /\ ClassOf(ev) \in classes
    /\ ~AttrValue(ev.attrs, "title", Absent).none
    /\ ~HasBboxToken(AttrValue(ev.attrs, "title", Absent).v)

\* C11 as stated: a word or line tag of the word dialect whose title has no
\* bbox token never makes the feed raise; the boxes and lines collected
\* before it are unchanged.
C11_MalformedNotSurfaced ==
    (WordFed /\ LacksBbox(LastEvent, {"ocr_word", "ocrx_word", "ocr_line"}))
        => /\ pc # "raised" /\ ~wp.raised
           /\ wp.boxes = WordBefore.boxes
           /\ wp.lines = WordBefore.lines

\* The tokens of a positions region that are left once every "-1" is
\* removed; node.words holds the tokens after the x_bboxes marker.
IsCoordinate(token) == token # Tok(-1)
Available(node) == SelectSeq(node.words, IsCoordinate)

\* The words of a line's text: the non-empty pieces between spaces.
IsWord(piece) == piece # <<>>
WordsOf(text) == SelectSeq(Split(text, S_space), IsWord)

NonSpace(text) == Cardinality({i \in 1..Len(text) : text[i] # " "})

\* More characters than coordinate quadruples.
Exhausted(node) == 4 * NonSpace(node.text) > Len(Available(node))

\* C12 as stated: when a line of the character-position dialect has more
\* non-space characters than coordinate quadruples left after the removal
\* of the sentinels, none included, the parse of the document raises and
\* read_file returns nothing.
C12_ExhaustionIsFatal ==
    (Finished /\ pi = 2
       /\ \E k \in 1..Len(src) : src[k].kind = "bline" /\ Exhausted(src[k]))
        => pc = "raised"

\* The integer a coordinate token stands for.
IntOf(token) == ParseInt(token).v

\* The Box of the claim for a word that uses the tokens of F after the
\* first used: Len(word) quadruples (x1, y1, x2, y2).
AggregatedBox(word, F, used) ==
    LET q(j, c) == IntOf(F[used + 4 * (j - 1) + c])
        chars == 1..Len(word)
    IN  Box(word,
            <<<<Min({q(j, 1) : j \in chars}), Min({q(j, 2) : j \in chars})>>,
              <<Max({q(j, 3) : j \in chars}), Max({q(j, 4) : j \in chars})>>>>,
            0)

RECURSIVE AggregatedFrom(_, _, _)
AggregatedFrom(words, F, used) ==
    IF words = <<>> THEN <<>>
    ELSE <<AggregatedBox(Head(words), F, used)>>
            \o AggregatedFrom(Tail(words), F, used + 4 * Len(Head(words)))

\* The Boxes of a line with text node.text and positions tokens P.
Aggregated(node) ==
    LET P == <<S_x_bboxes>> \o node.words
        F == SelectSeq(Tail(P), IsCoordinate)
    IN  AggregatedFrom(WordsOf(node.text), F, 0)

\* A document of lines of the character-position dialect, each with the
\* coordinates its text needs.
CharacterLines ==
    /\ origin = "raw" /\ src # <<>>
    /\ \A k \in 1..Len(src) : src[k].kind = "bline" /\ ~Exhausted(src[k])

\* C13: of a line with text T and positions tokens P, with F the tokens of
\* P after the first that are not "-1", the character-position parser makes
\* one Box per non-empty word of T between spaces, in order; a word of
\* length L uses the next 4*L tokens of F as L quadruples (x1, y1, x2, y2)
\* and has position ((min x1, min y1), (max x2, max y2)), confidence 0.
C13_WordAggregation ==
    (CharacterLines /\ pi = 2) =>
        /\ pc # "raised"
        /\ (pc = "feeding" /\ pos = Len(doc) + 1) =>
             lp.boxes = Concat([k \in 1..Len(src) |-> Aggregated(src[k])])

\* "x" after the removal of a coordinate that is -1, then "Hi x": a word of
\* two characters, a space with its four sentinels, a word of one.
C13_Witness ==
    /\ CharacterLines /\ pi = 2 /\ pc = "feeding" /\ pos = Len(doc) + 1
    /\ src = <<B_left, B_Hi_x>>
    /\ Len(lp.boxes) = 3
    /\ lp.boxes[1].position = <<<<3, 5>>, <<8, 2>>>>
    /\ lp.boxes[2].position = <<<<4, 10>>, <<14, 28>>>>

\* The start tag that the end tag just dispatched closes, when nothing but
\* text lies between them; 0 when the last event is no such end tag.
ClosedStart ==
    IF ~WordFed \/ LastEvent.type # "end" \/ pos < 3 THEN 0
    ELSE IF doc[pos - 2].type = "start" THEN pos - 2
    ELSE IF pos > 3 /\ doc[pos - 2].type = "data"
            /\ doc[pos - 3].type = "start" THEN pos - 3
    ELSE 0

\* The text between that start tag and the end tag.
ClosedText ==
    IF doc[pos - 2].type = "data" THEN doc[pos - 2].data ELSE <<>>

\* A word tag whose title is the bbox of position and nothing else.
IsBboxOnlyWord(ev, position) ==
    /\ ev.type = "start" /\ ev.tag = "span"
    /\ IsWordClass(ClassOf(ev))
    /\ AttrValue(ev.attrs, "title", Absent) = Some(BboxTitle(position))

\* A document of word spans, each with a bbox, with or without x_wconf.
WordsOnly ==
    /\ origin = "raw" /\ src # <<>>
    /\ \A k \in 1..Len(src) :
         src[k].kind = "word" /\ src[k].form \in {"full", "noconf"}

\* C16: a word tag of the word dialect whose title has a valid bbox and no
\* x_wconf gives, at its close, a Box with confidence 0 and that bbox; no
\* handler raises and the words that follow are parsed as well.
C16_MissingConfidence ==
    /\ \A position \in {P1, P2, P3} :
         (ClosedStart # 0 /\ IsBboxOnlyWord(doc[ClosedStart], position)) =>
             /\ pc # "raised"
             /\ wp.boxes = Append(WordBefore.boxes,
                                  Box(ClosedText, position, 0))
    /\ (WordsOnly /\ pi = 1) =>
         /\ pc # "raised"
         /\ (pc = "feeding" /\ pos = Len(doc) + 1) =>
              wp.boxes = [k \in 1..Len(src) |->
                            Box(src[k].text, src[k].pos,
                                IF src[k].form = "noconf" THEN 0
                                ELSE src[k].conf)]

\* A word without x_wconf, then a word with it.
C16_Witness ==
    /\ WordsOnly /\ pi = 1 /\ pc = "feeding" /\ pos = Len(doc) + 1
    /\ src = <<W_noconf, W_spaced>>
    /\ wp.boxes = <<Box(T_a, P2, 0), Box(T_spaced, P1, 100)>>

\* The span elements open after the first n events of the document.
RECURSIVE Depth(_)
Depth(n) ==
    IF n = 0 THEN 0
    ELSE IF doc[n].tag # "span" THEN Depth(n - 1)
    ELSE IF doc[n].type = "start" THEN Depth(n - 1) + 1
    ELSE IF doc[n].type = "end" THEN Depth(n - 1) - 1
    ELSE Depth(n - 1)

\* C17 as stated: after any prefix of a document of well-nested spans, the
\* stack of the word-tag parser holds one entry per span open, those
\* without class or title included, and no close finds the stack empty.
C17_NestingStack ==
    (pi = 1 /\ pos >= 1) =>
        /\ (pc = "feeding") => Len(wp.tag_types) = Depth(pos - 1)
        /\ (pc = "raised") => LastEvent.type # "end"

\* C18: the open of a word tag whose title has no bbox token pushes
\* "ignore" and changes nothing else of the parser: not the current box's
\* position, confidence and text, nor the pending words of the line, nor
\* boxes, nor lines; the close that finds the marker pops it and makes no
\* Box.
C18_IgnoredWord ==
    [][/\ (WordParserStartTag
             /\ LacksBbox(doc[pos], {"ocr_word", "ocrx_word"}))
            => wp' = [wp EXCEPT !.tag_types = Append(@, "ignore")]
       /\ (WordParserEndTag /\ doc[pos].tag = "span"
             /\ wp.tag_types # <<>> /\ Last(wp.tag_types) = "ignore")
            => wp' = [wp EXCEPT !.tag_types = Front(@)]]_vars

\* A word was parsed, then a word tag without bbox was opened and closed.
C18_Witness ==
    /\ ClosedStart # 0
    /\ LacksBbox(doc[ClosedStart], {"ocr_word", "ocrx_word"})
    /\ pc = "feeding"
    /\ wp.boxes # <<>> /\ wp.boxes = WordBefore.boxes
    /\ wp.tag_types = <<>>

\* The open of a content region, and of a positions region with its
\* tokens.
ContentOpen(ev) ==
    ev.type = "start" /\ ev.tag = "span" /\ ClassOf(ev) = "ocr_line"

PositionsOpen(ev) ==
    /\ ev.type = "start" /\ ev.tag = "span" /\ ClassOf(ev) = "ocr_cinfo"
    /\ ~AttrValue(ev.attrs, "title", Absent).none

\* The line the event at n belongs to: the last content-region open before
\* it, the text received since, and the tokens of the last positions
\* region opened since.
OwnOpen(n) ==
    LET opens == {i \in 1..(n - 1) : ContentOpen(doc[i])}
    IN  IF opens = {} THEN 0 ELSE Max(opens)

RECURSIVE TextBetween(_, _)
TextBetween(from, to) ==
    IF from >= to THEN <<>>
    ELSE (IF doc[from].type = "data" THEN doc[from].data ELSE <<>>)
            \o TextBetween(from + 1, to)

OwnTokens(n) ==
    LET regions == {i \in (OwnOpen(n) + 1)..(n - 1) : PositionsOpen(doc[i])}
    IN  IF OwnOpen(n) = 0 \/ regions = {} THEN <<>>
        ELSE SelectSeq(
               Tail(Split(AttrValue(doc[Max(regions)].attrs, "title",
                                    Absent).v, S_space)),
               IsCoordinate)

\* The Boxes of the line the event at n belongs to, from its own text and
\* its own tokens; none when the tokens do not suffice.
OwnBoxes(n) ==
    LET text == TextBetween(OwnOpen(n) + 1, n)
    IN  IF OwnOpen(n) = 0 \/ 4 * NonSpace(text) > Len(OwnTokens(n))
        THEN <<>>
        ELSE AggregatedFrom(WordsOf(text), OwnTokens(n), 0)

\* C19: a content-region open empties the text and the coordinates kept,
\* so that no token left by an earlier line reaches a later one; the Boxes
\* an end tag adds are those of the text and the tokens of the line it
\* belongs to; once they are added the text is closed, and text received
\* while it is closed is not kept.
C19_NoLeakage ==
    [][/\ (LineParserStartTag /\ ContentOpen(doc[pos]))
            => /\ lp'.char_positions = Some(<<>>)
               /\ lp'.line_text = Some(<<>>)
               /\ lp'.boxes = lp.boxes
       /\ (LineParserData /\ lp.line_text.none) => lp' = lp
       /\ (LineParserEndTag /\ lp'.boxes # lp.boxes /\ ~lp'.raised)
            => /\ lp'.boxes = lp.boxes \o OwnBoxes(pos)
               /\ lp'.line_text.none]_vars

\* A line left four tokens unused; the next line, which has text and no
\* positions region, got no Box from them.
C19_Witness ==
    /\ pi = 2 /\ pc = "feeding" /\ pos = Len(doc) + 1
    /\ src = <<B_left, L_old>>
    /\ lp.boxes = <<Box(<<"x">>, <<<<3, 5>>, <<8, 2>>>>, 0)>>
    /\ lp.char_positions = Some(<<>>)
    /\ lp.line_text = Some(<<" ", "a">>)

-----------------------------------------------------------------------------
(* Properties of the builders, under SpecBuild.                            *)

\* The words added since each start_line, from the calls made.
RECURSIVE Grouped(_)
Grouped(cs) ==
    IF cs = <<>> THEN <<>>
    ELSE LET g == Grouped(Front(cs))
             c == Last(cs)
         IN  IF c.op = "start_line" THEN Append(g, <<>>)
             ELSE [g EXCEPT ![Len(g)] = Append(@, c.word)]

\* C14 as stated: after start_line and add_word calls that begin with
\* start_line, get_output() is the lines joined by a newline, each line
\* the words added since its start_line joined by single spaces.
C14_PlainTextRendering ==
    (pcb = "text" /\ output.done /\ calls # <<>>
       /\ calls[1].op = "start_line")
        => output.v = Join([k \in 1..Len(Grouped(calls)) |->
                               Join(Grouped(calls)[k], S_space)],
                           <<"\n">>)

\* The content the spec gives a line: the contents of its words joined by
\* single spaces, then trimmed.
JoinedContent(word_boxes) ==
    Strip(Join([j \in 1..Len(word_boxes) |-> word_boxes[j].content],
               S_space))

IsAddWord(c) == c.op = "add_word"

\* C15: the content of a LineBox is, in every state, the contents of its
\* current word_boxes joined by single spaces and trimmed, the words
\* appended by LineBoxBuilder.add_word included; get_output() answers lines
\* whose content is the same.
C15_ContentIsDerived ==
    (pcb = "line") =>
        /\ \A k \in 1..Len(lb_lines) :
             ContentOf(lb_lines[k]) = JoinedContent(lb_lines[k].word_boxes)
        /\ LET added == SelectSeq(calls, IsAddWord)
           IN  Concat([k \in 1..Len(lb_lines) |-> lb_lines[k].word_boxes])
                 = [j \in 1..Len(added) |->
                      Box(added[j].word, P3, BuildConfidence)]
        /\ output.done =>
             /\ output.v = lb_lines
             /\ \A k \in 1..Len(lb_lines) :
                  output.contents[k] = JoinedContent(lb_lines[k].word_boxes)

\* A line was read as "a", then given a second word, then read again.
C15_Witness ==
    /\ pcb = "line" /\ output.done
    /\ Len(lb_lines) = 1
    /\ Len(lb_lines[1].word_boxes) = 2
    /\ output.contents[1] = <<"a", " ", " ", "b">>

\* C21: every LineBox of LineBoxBuilder but the last has non-empty content,
\* in the lines kept and in those get_output() answers: start_line appends
\* a LineBox only when there is no last line or the last line's content is
\* not empty.
C21_NoEmptyLineBehind ==
    /\ [](pcb = "line" =>
            /\ \A k \in 1..(Len(lb_lines) - 1) :
                 ContentOf(lb_lines[k]) # <<>>
            /\ output.done =>
                 \A k \in 1..(Len(output.v) - 1) :
                     ContentOf(output.v[k]) # <<>>
                       /\ output.contents[k] # <<>>)
    /\ [][LineBoxBuilder_start_line =>
             IF lb_lines = <<>> \/ ContentOf(Last(lb_lines)) # <<>>
             THEN Len(lb_lines') = Len(lb_lines) + 1
             ELSE lb_lines' = lb_lines]_vars

\* Two lines are kept after three start_line calls: the one made while the
\* last line was empty added none.
C21_Witness ==
    /\ pcb = "line" /\ output.done
    /\ Len(output.v) = 2
    /\ Len(output.v[1].word_boxes) = 1
    /\ output.contents[2] = <<>>
    /\ Len(calls) = 4
    /\ Cardinality({i \in 1..4 : calls[i].op = "start_line"}) = 3

\* The call that added the n-th word, and the last start_line call made
\* before the call at i.
AddIndex(n) ==
    CHOOSE i \in 1..Len(calls) :
        /\ IsAddWord(calls[i])
        /\ Cardinality({j \in 1..i : IsAddWord(calls[j])}) = n

RecentStart(i) == Max({j \in 1..(i - 1) : calls[j].op = "start_line"})

\* The words held by the lines before the l-th.
RECURSIVE WordsBefore(_)
WordsBefore(l) ==
    IF l <= 1 THEN 0
    ELSE WordsBefore(l - 1) + Len(lb_lines[l - 1].word_boxes)

\* C22 as stated: every word added by add_word is held by a LineBox whose
\* position is the box of the last start_line call made before that
\* add_word.
C22_LinePositionOfWord ==
    (pcb = "line") =>
        \A l \in 1..Len(lb_lines) :
            \A w \in 1..Len(lb_lines[l].word_boxes) :
                lb_lines[l].position
                  = calls[RecentStart(AddIndex(WordsBefore(l) + w))].box

=============================================================================
